---- MODULE Spec2Model ----
(***************************************************************************)
(* State-machine model of Phase3app.py: one run of the home-run predictor  *)
(* script from the two uploaded tables to the leaderboard export.          *)
(*                                                                         *)
(* Data representation                                                     *)
(*   cell      [k, v, s]: k = "num" (value v), "nan", "inf" or "str"       *)
(*             (characters s, a sequence of one-character strings)         *)
(*   column    [name, dtype, vals]: dtype = "num" or "obj"                 *)
(*   DataFrame a sequence of columns (names may repeat, as in pandas)      *)
(*   float     probabilities are fixed-point integers in units of 1/FScale *)
(*             and multipliers are exact fractions <<num, den>>            *)
(***************************************************************************)
EXTENDS Integers, Sequences, FiniteSets, TLC

VARIABLES
    pc,                   \* position of the script
    event_file,           \* uploaded event table as read by safe_read
    today_file,           \* uploaded today table as read by safe_read
    fit_throws,           \* environment: classifier variants whose fit raises
    y_today_pred_cal,     \* environment: calibrated probability of each today row
    event_df,
    today_df,
    errors,               \* st.error messages shown so far
    warnings,             \* st.warning messages shown so far
    candidates,           \* feature_cols before pruning (columns of corr_matrix)
    to_drop,
    feature_cols,
    X,
    X_today,
    fit_idx,              \* next classifier variant to fit
    models_for_ensemble,
    model_status,
    ensemble,             \* estimators of the fitted VotingClassifier
    hr_probability,       \* derived columns of today_df, one entry per row
    overlay_mult,
    final_hr_probability,
    lb_order,             \* row index of today_df at each leaderboard position
    leaderboard,
    shown,                \* leaderboard_top as rendered
    gap,                  \* confidence gap message
    exported              \* the two download buttons were offered

vars == <<pc, event_file, today_file, fit_throws, y_today_pred_cal, event_df,
          today_df, errors, warnings, candidates, to_drop, feature_cols, X,
          X_today, fit_idx, models_for_ensemble, model_status, ensemble,
          hr_probability, overlay_mult, final_hr_probability, lb_order,
          leaderboard, shown, gap, exported>>

-----------------------------------------------------------------------------
(* Cells and small helpers *)

Num(v) == [k |-> "num", v |-> v, s |-> <<>>]
NaN == [k |-> "nan", v |-> 0, s |-> <<>>]
Inf == [k |-> "inf", v |-> 0, s |-> <<>>]
Str(s) == [k |-> "str", v |-> 0, s |-> s]

isnull(c) == c.k = "nan"

Col(name, dtype, vals) == [name |-> name, dtype |-> dtype, vals |-> vals]

Nums(seq) == [i \in 1..Len(seq) |-> Num(seq[i])]

Range(seq) == {seq[i] : i \in 1..Len(seq)}

Columns(df) == [i \in 1..Len(df) |-> df[i].name]

NRows(df) == IF Len(df) = 0 THEN 0 ELSE Len(df[1].vals)

RECURSIVE KeepIdx(_, _, _)
\* the subsequence of seq at the positions in idx, in order, from position i
KeepIdx(seq, idx, i) ==
    IF i > Len(seq) THEN <<>>
    ELSE (IF i \in idx THEN <<seq[i]>> ELSE <<>>) \o KeepIdx(seq, idx, i + 1)

RECURSIVE SumSeq(_)
SumSeq(seq) == IF seq = <<>> THEN 0 ELSE Head(seq) + SumSeq(Tail(seq))

RECURSIVE Gcd(_, _)
Gcd(a, b) == IF b = 0 THEN a ELSE Gcd(b, a % b)

Min(a, b) == IF a <= b THEN a ELSE b
Max(a, b) == IF a >= b THEN a ELSE b

\* Python's ordering of the column names used by the inputs (code-point order)
NameOrder ==
    << "batter_id", "fa", "fb", "fc", "hr_outcome", "humidity", "note",
       "park_hr_rate", "player_name", "temp", "wind_dir_string", "wind_mph" >>

\* sorted(list(S)) for a set S of column names
sorted(S) == SelectSeq(NameOrder, LAMBDA n : n \in S)

-----------------------------------------------------------------------------
(* FILE HELPERS *)

\* DataFrame.dropna(axis=1, how='all')
dropna_all(df) == SelectSeq(df, LAMBDA c : \E i \in 1..Len(c.vals) : ~isnull(c.vals[i]))

dedup_columns_keepall(df) == df

\* df.loc[:, ~df.columns.duplicated()]: the first column of each name is kept
dedup_columns(df) ==
    KeepIdx(df, {i \in 1..Len(df) : \A j \in 1..(i - 1) : df[j].name # df[i].name}, 1)

find_duplicate_columns(df) ==
    SelectSeq(Columns(df),
              LAMBDA n : Cardinality({i \in 1..Len(df) : df[i].name = n}) > 1)

Digits == <<"0", "1", "2", "3", "4", "5", "6", "7", "8", "9">>

DigitVal(ch) == (CHOOSE d \in 1..10 : Digits[d] = ch) - 1

RECURSIVE ParseInt(_, _)
ParseInt(s, acc) ==
    IF s = <<>> THEN acc ELSE ParseInt(Tail(s), 10 * acc + DigitVal(Head(s)))

\* a cell pd.to_numeric can convert: numbers, missing values and digit strings
Parseable(c) ==
    \/ c.k \in {"num", "nan", "inf"}
    \/ c.k = "str" /\ c.s # <<>> /\ \A i \in 1..Len(c.s) : c.s[i] \in Range(Digits)

to_numeric_cell(c) == IF c.k = "str" THEN Num(ParseInt(c.s, 0)) ELSE c

\* pd.to_numeric(col, errors='ignore'): the column unchanged when a value does not parse
fix_types_col(c) ==
    IF \A i \in 1..Len(c.vals) : isnull(c.vals[i]) THEN c
    ELSE IF c.dtype = "obj" /\ \A i \in 1..Len(c.vals) : Parseable(c.vals[i])
         THEN Col(c.name, "num", [i \in 1..Len(c.vals) |-> to_numeric_cell(c.vals[i])])
         ELSE c

fix_types(df) == [i \in 1..Len(df) |-> fix_types_col(df[i])]

\* df[name]: the column of that name (the first one)
ColOf(df, name) == df[CHOOSE i \in 1..Len(df) :
                        /\ df[i].name = name
                        /\ \A j \in 1..(i - 1) : df[j].name # name]

\* df[cols]: the named columns in the order of the list
Select(df, cols) == [i \in 1..Len(cols) |-> ColOf(df, cols[i])]

NoCols == [given |-> FALSE, cols |-> <<>>]
SomeCols(cols) == [given |-> TRUE, cols |-> cols]

allowed_obj == {"wind_dir_string", "condition", "player_name", "city", "park", "roof_status"}

fillna(df, v) ==
    [i \in 1..Len(df) |->
        [df[i] EXCEPT !.vals = [r \in 1..Len(df[i].vals) |->
                                  IF isnull(df[i].vals[r]) THEN Num(v) ELSE df[i].vals[r]]]]

\* the sentinel that replaces missing values and fills created columns
Sentinel == 0 - 1

clean_X_fill0(df, train_cols) ==
    LET typed  == fix_types(dedup_columns(df))
        kept   == SelectSeq(typed, LAMBDA c : ~(c.dtype = "obj" /\ c.name \notin allowed_obj))
        filled == fillna(kept, 0)
        n      == NRows(filled)
        absent == SelectSeq(train_cols.cols, LAMBDA c : c \notin Range(Columns(filled)))
        added  == filled \o [i \in 1..Len(absent) |->
                                Col(absent[i], "num", [r \in 1..n |-> Num(0)])]
    IN  IF train_cols.given THEN Select(added, train_cols.cols) ELSE filled

clean_X(df, train_cols) ==
    LET typed  == fix_types(dedup_columns(df))
        kept   == SelectSeq(typed, LAMBDA c : ~(c.dtype = "obj" /\ c.name \notin allowed_obj))
        filled == fillna(kept, Sentinel)
        n      == NRows(filled)
        absent == SelectSeq(train_cols.cols, LAMBDA c : c \notin Range(Columns(filled)))
        added  == filled \o [i \in 1..Len(absent) |->
                                Col(absent[i], "num", [r \in 1..n |-> Num(Sentinel)])]
    IN  IF train_cols.given THEN Select(added, train_cols.cols) ELSE filled

base_drop == {"game_date", "batter_id", "player_name", "pitcher_id", "city", "park", "roof_status"}

\* drop is the set of extra names to leave out (empty for drop=None)
get_valid_feature_cols(df, drop) ==
    LET numerics == SelectSeq(df, LAMBDA c : c.dtype = "num")
    IN  SelectSeq(Columns(numerics), LAMBDA n : n \notin (base_drop \cup drop))

\* values keep their magnitude when their width is reduced
downcast_df(df) == df

CountCells(df, kind) ==
    SumSeq([i \in 1..Len(df) |->
              IF df[i].dtype = "num"
              THEN Cardinality({r \in 1..Len(df[i].vals) : df[i].vals[r].k = kind})
              ELSE 0])

nan_inf_check_nans_only(df) == CountCells(df, "nan") > 0

\* TRUE when nan_inf_check reports the error and stops the run
nan_inf_check(df) == CountCells(df, "nan") > 0 \/ CountCells(df, "inf") > 0

-----------------------------------------------------------------------------
(* FEATURE CLUSTERING *)

\* the correlation threshold, in hundredths
corr_threshold == 97

\* |Pearson correlation| of two columns > t/100, over the rows where both are
\* finite (DataFrame.corr is pairwise complete); a constant column has none.
AbsCorrAbove(x, y, t) ==
    LET I   == {r \in 1..Len(x) : x[r].k = "num" /\ y[r].k = "num"}
        n   == Cardinality(I)
        xs  == [r \in 1..Len(x) |-> IF r \in I THEN x[r].v ELSE 0]
        ys  == [r \in 1..Len(x) |-> IF r \in I THEN y[r].v ELSE 0]
        sx  == SumSeq(xs)
        sy  == SumSeq(ys)
        sxy == n * SumSeq([r \in 1..Len(x) |-> xs[r] * ys[r]]) - sx * sy
        sxx == n * SumSeq([r \in 1..Len(x) |-> xs[r] * xs[r]]) - sx * sx
        syy == n * SumSeq([r \in 1..Len(x) |-> ys[r] * ys[r]]) - sy * sy
    IN  /\ sxx > 0
        /\ syy > 0
        /\ sxy * sxy * 100 * 100 > t * t * sxx * syy

HighCorr_loose(x, y) == AbsCorrAbove(x, y, 99)

\* corr_matrix[x][y] > 0.97
HighCorr(x, y) == AbsCorrAbove(x, y, corr_threshold)

LowerTri(i, j) == j < i

\* np.triu(np.ones(shape), k=1): row i of column j is kept when i is above the diagonal
UpperTri(i, j) == i < j

\* to_drop: the columns with an entry > 0.97 in the masked correlation matrix
ToDrop(X_full, cols) ==
    KeepIdx(cols,
            {j \in 1..Len(cols) :
                \E i \in 1..Len(cols) :
                    /\ UpperTri(i, j)
                    /\ HighCorr(X_full[i].vals, X_full[j].vals)},
            1)

-----------------------------------------------------------------------------
(* GAME DAY OVERLAY MULTIPLIERS *)

\* exact fractions <<num, den>>, den > 0, in lowest terms
Frac(n, d) == LET g == Gcd(n, d) IN <<n \div g, d \div g>>

FMul(a, b) == Frac(a[1] * b[1], a[2] * b[2])

RECURSIVE IPow(_, _)
IPow(b, e) == IF e = 0 THEN 1 ELSE b * IPow(b, e - 1)

\* 1.03 ** (delta / 10), for delta a multiple of 10
Pow103(delta) ==
    LET e == delta \div 10
    IN  IF e >= 0 THEN Frac(IPow(103, e), IPow(100, e))
        ELSE Frac(IPow(100, 0 - e), IPow(103, 0 - e))

UpperCase == << "A", "B", "C", "D", "E", "F", "G", "H", "I", "J", "K", "L", "M",
                "N", "O", "P", "Q", "R", "S", "T", "U", "V", "W", "X", "Y", "Z" >>
LowerCase == << "a", "b", "c", "d", "e", "f", "g", "h", "i", "j", "k", "l", "m",
                "n", "o", "p", "q", "r", "s", "t", "u", "v", "w", "x", "y", "z" >>

\* str.lower()
lower(s) ==
    [i \in 1..Len(s) |->
        IF s[i] \in Range(UpperCase)
        THEN LowerCase[CHOOSE k \in 1..Len(UpperCase) : UpperCase[k] = s[i]]
        ELSE s[i]]

\* sub in s
Contains(s, sub) ==
    \E i \in 1..(Len(s) - Len(sub) + 1) : SubSeq(s, i, i + Len(sub) - 1) = sub

RECURSIVE IntStr(_)
IntStr(v) == IF v < 10 THEN <<Digits[v + 1]>> ELSE IntStr(v \div 10) \o <<Digits[(v % 10) + 1]>>

\* str(value) of a cell
str(c) ==
    IF c.k = "str" THEN c.s
    ELSE IF c.k = "nan" THEN <<"n", "a", "n">>
    ELSE IF c.k = "inf" THEN <<"i", "n", "f">>
    ELSE IntStr(c.v)

\* row r of a frame, as passed by DataFrame.apply(axis=1)
RowOf(df, r) == [n \in Range(Columns(df)) |-> ColOf(df, n).vals[r]]

WindFactor_strict(row) ==
    IF "wind_mph" \in DOMAIN row /\ "wind_dir_string" \in DOMAIN row
    THEN LET wind     == row["wind_mph"]
             wind_dir == lower(str(row["wind_dir_string"]))
         IN  IF ~isnull(wind) /\ (wind.k = "inf" \/ wind.v > 10)
             THEN IF Contains(wind_dir, <<"o", "u", "t">>) THEN Frac(108, 100)
                  ELSE IF Contains(wind_dir, <<"i", "n">>) THEN Frac(93, 100)
                  ELSE Frac(1, 1)
             ELSE Frac(1, 1)
    ELSE Frac(1, 1)

\* the factor applied by the wind block
WindFactor(row) ==
    IF "wind_mph" \in DOMAIN row /\ "wind_dir_string" \in DOMAIN row
    THEN LET wind     == row["wind_mph"]
             wind_dir == lower(str(row["wind_dir_string"]))
         IN  IF ~isnull(wind) /\ (wind.k = "inf" \/ wind.v >= 10)
             THEN IF Contains(wind_dir, <<"o", "u", "t">>) THEN Frac(108, 100)
                  ELSE IF Contains(wind_dir, <<"i", "n">>) THEN Frac(93, 100)
                  ELSE Frac(1, 1)
             ELSE Frac(1, 1)
    ELSE Frac(1, 1)

\* the factor applied by the temperature block
TempFactor(row) ==
    IF "temp" \in DOMAIN row /\ ~isnull(row["temp"])
    THEN Pow103(row["temp"].v - 70)
    ELSE Frac(1, 1)

\* the factor applied by the humidity block
HumidityFactor(row) ==
    IF "humidity" \in DOMAIN row /\ ~isnull(row["humidity"])
    THEN LET hum == row["humidity"].v
         IN  IF hum > 60 THEN Frac(102, 100)
             ELSE IF hum < 40 THEN Frac(98, 100)
             ELSE Frac(1, 1)
    ELSE Frac(1, 1)

\* the factor applied by the park block; park_hr_rate cells are in hundredths
ParkFactor(row) ==
    IF "park_hr_rate" \in DOMAIN row /\ ~isnull(row["park_hr_rate"])
    THEN Frac(Max(85, Min(120, row["park_hr_rate"].v)), 100)
    ELSE Frac(1, 1)

overlay_multiplier(row) ==
    LET m0 == Frac(1, 1)
        m1 == FMul(m0, WindFactor(row))
        m2 == FMul(m1, TempFactor(row))
        m3 == FMul(m2, HumidityFactor(row))
        m4 == FMul(m3, ParkFactor(row))
    IN  m4

-----------------------------------------------------------------------------
(* OVERLAY APPLICATION AND LEADERBOARD *)

\* resolution of the fixed-point probabilities: one digit more than is displayed
FScale == 10 ^ 5

RECURSIVE MulDiv(_, _, _)
\* <<q, r>> with a * b = q * c + r and 0 <= r < c, without forming a * b
MulDiv(a, b, c) ==
    IF b = 0 THEN <<0, 0>>
    ELSE LET h  == MulDiv(a, b \div 2, c)
             d  == 2 * h[2]
             q2 == 2 * h[1] + (d \div c)
             r2 == d % c
             e  == r2 + (a % c)
         IN  IF b % 2 = 0 THEN <<q2, r2>>
             ELSE <<q2 + (a \div c) + (e \div c), e % c>>

\* p * m for a fixed-point p and a fraction m
Times(p, m) == MulDiv(m[1], p, m[2])[1]

clip_lower_only(x, lo, hi) == Max(lo, x)

\* Series.clip(lo, hi)
clip(x, lo, hi) == Max(lo, Min(hi, x))

\* round half to even of n / d
RoundDiv(q, r, d) ==
    IF 2 * r < d THEN q
    ELSE IF 2 * r > d THEN q + 1
    ELSE IF q % 2 = 0 THEN q ELSE q + 1

\* Series.round(4) of a fixed-point probability, in the same units
Round4(f) == LET u == FScale \div (10 ^ 4) IN u * RoundDiv(f \div u, f % u, u)

\* Series.round(3) of a multiplier, in thousandths
Round3(m) == LET qr == MulDiv(m[1], 10 ^ 3, m[2]) IN RoundDiv(qr[1], qr[2], m[2])

RECURSIVE OrdersBy(_, _, _)
\* the orders of the indices in I by key, largest first when desc and smallest
\* first otherwise; indices with equal keys come in any order
OrdersBy(keys, I, desc) ==
    IF I = {} THEN {<<>>}
    ELSE LET tops == {i \in I : \A j \in I :
                        IF desc THEN keys[j] <= keys[i] ELSE keys[j] >= keys[i]}
         IN  UNION {{<<i>> \o rest : rest \in OrdersBy(keys, I \ {i}, desc)} : i \in tops}

sort_values_ascending(keys) == OrdersBy(keys, 1..Len(keys), FALSE)

\* sort_values(ascending=False): the row orders it may return (the default
\* quicksort is not stable)
sort_values_descending(keys) == OrdersBy(keys, 1..Len(keys), TRUE)

top_n == 30

-----------------------------------------------------------------------------
(* THE SCRIPT *)

Variants == <<"xgb", "lgb", "cat", "rf", "gb", "lr">>
StatusOf == <<"XGB OK", "LGB OK", "CatBoost OK", "RF OK", "GB OK", "LR OK">>
WarningOf == <<"XGBoost failed", "LightGBM failed", "CatBoost failed",
               "RandomForest failed", "GBM failed", "LogReg failed">>

target_col == "hr_outcome"

Error(kind, cols) == [kind |-> kind, cols |-> cols]

\* lines 133-151: read, drop all-null columns, deduplicate, check, fix types
Ingest ==
    /\ pc = "ingest"
    /\ LET e  == dedup_columns(dropna_all(event_file))
           t  == dedup_columns(dropna_all(today_file))
           dupes_event == find_duplicate_columns(e)
           dupes_today == find_duplicate_columns(t)
       IN  IF dupes_event # <<>>
           THEN /\ errors' = Append(errors, Error("Duplicate columns in event file", Range(dupes_event)))
                /\ event_df' = e
                /\ today_df' = t
                /\ pc' = "halted"
           ELSE IF dupes_today # <<>>
           THEN /\ errors' = Append(errors, Error("Duplicate columns in today file", Range(dupes_today)))
                /\ event_df' = e
                /\ today_df' = t
                /\ pc' = "halted"
           ELSE /\ errors' = errors
                /\ event_df' = fix_types(e)
                /\ today_df' = fix_types(t)
                /\ pc' = "label"
    /\ UNCHANGED <<event_file, today_file, fit_throws, y_today_pred_cal, warnings,
                   candidates, to_drop, feature_cols, X, X_today, fit_idx,
                   models_for_ensemble, model_status, ensemble, hr_probability,
                   overlay_mult, final_hr_probability, lb_order, leaderboard,
                   shown, gap, exported>>

\* lines 153-162: the label column must exist
LabelCheck ==
    /\ pc = "label"
    /\ IF target_col \notin Range(Columns(event_df))
       THEN /\ errors' = Append(errors, Error("No valid hr_outcome column", {target_col}))
            /\ pc' = "halted"
       ELSE /\ errors' = errors
            /\ pc' = "cluster"
    /\ UNCHANGED <<event_file, today_file, fit_throws, y_today_pred_cal, event_df,
                   today_df, warnings, candidates, to_drop, feature_cols, X,
                   X_today, fit_idx, models_for_ensemble, model_status, ensemble,
                   hr_probability, overlay_mult, final_hr_probability, lb_order,
                   leaderboard, shown, gap, exported>>

\* lines 164-179: common numeric columns, then one feature per correlated group
Cluster ==
    /\ pc = "cluster"
    /\ LET feat_cols_train == Range(get_valid_feature_cols(event_df, {}))
           feat_cols_today == Range(get_valid_feature_cols(today_df, {}))
           cols   == sorted(feat_cols_train \cap feat_cols_today)
           X_full == fillna(Select(event_df, cols), 0)
           drop   == ToDrop(X_full, cols)
       IN  /\ candidates' = cols
           /\ to_drop' = drop
           /\ feature_cols' = SelectSeq(cols, LAMBDA c : c \notin Range(drop))
    /\ pc' = "matrix"
    /\ UNCHANGED <<event_file, today_file, fit_throws, y_today_pred_cal, event_df,
                   today_df, errors, warnings, X, X_today, fit_idx,
                   models_for_ensemble, model_status, ensemble, hr_probability,
                   overlay_mult, final_hr_probability, lb_order, leaderboard,
                   shown, gap, exported>>

\* lines 181-209: the two matrices, their NaN/Inf checks, split and scaling
BuildMatrices ==
    /\ pc = "matrix"
    /\ LET Xe == downcast_df(clean_X(Select(event_df, feature_cols), NoCols))
           Xt == downcast_df(clean_X(Select(today_df, feature_cols), SomeCols(Columns(Xe))))
       IN  /\ X' = Xe
           /\ X_today' = Xt
           /\ IF nan_inf_check(Xe)
              THEN /\ errors' = Append(errors, Error("NaNs or Infs in X features", {}))
                   /\ pc' = "halted"
              ELSE IF nan_inf_check(Xt)
              THEN /\ errors' = Append(errors, Error("NaNs or Infs in X_today features", {}))
                   /\ pc' = "halted"
              ELSE /\ errors' = errors
                   /\ pc' = "fit"
    /\ UNCHANGED <<event_file, today_file, fit_throws, y_today_pred_cal, event_df,
                   today_df, warnings, candidates, to_drop, feature_cols, fit_idx,
                   models_for_ensemble, model_status, ensemble, hr_probability,
                   overlay_mult, final_hr_probability, lb_order, leaderboard,
                   shown, gap, exported>>

\* lines 214-255: one try/except block; the six run in the order of Variants
FitModel ==
    /\ pc = "fit"
    /\ IF Variants[fit_idx] \in fit_throws
       THEN /\ warnings' = Append(warnings, WarningOf[fit_idx])
            /\ UNCHANGED <<models_for_ensemble, model_status>>
       ELSE /\ models_for_ensemble' = Append(models_for_ensemble, Variants[fit_idx])
            /\ model_status' = Append(model_status, StatusOf[fit_idx])
            /\ UNCHANGED warnings
    /\ fit_idx' = fit_idx + 1
    /\ pc' = IF fit_idx = Len(Variants) THEN "ensemble" ELSE "fit"
    /\ UNCHANGED <<event_file, today_file, fit_throws, y_today_pred_cal, event_df,
                   today_df, errors, candidates, to_drop, feature_cols, X, X_today,
                   ensemble, hr_probability, overlay_mult, final_hr_probability,
                   lb_order, leaderboard, shown, gap, exported>>

\* lines 257-264: no model, no ensemble; otherwise the soft-voting ensemble
FitEnsemble ==
    /\ pc = "ensemble"
    /\ IF models_for_ensemble = <<>>
       THEN /\ errors' = Append(errors, Error("All models failed to train", {}))
            /\ ensemble' = ensemble
            /\ pc' = "halted"
       ELSE /\ errors' = errors
            /\ ensemble' = models_for_ensemble
            /\ pc' = "predict"
    /\ UNCHANGED <<event_file, today_file, fit_throws, y_today_pred_cal, event_df,
                   today_df, warnings, candidates, to_drop, feature_cols, X,
                   X_today, fit_idx, models_for_ensemble, model_status,
                   hr_probability, overlay_mult, final_hr_probability, lb_order,
                   leaderboard, shown, gap, exported>>

\* lines 266-298: diagnostics, validation, calibration, calibrated prediction
Predict ==
    /\ pc = "predict"
    /\ hr_probability' = y_today_pred_cal
    /\ pc' = "overlay"
    /\ UNCHANGED <<event_file, today_file, fit_throws, y_today_pred_cal, event_df,
                   today_df, errors, warnings, candidates, to_drop, feature_cols,
                   X, X_today, fit_idx, models_for_ensemble, model_status,
                   ensemble, overlay_mult, final_hr_probability, lb_order,
                   leaderboard, shown, gap, exported>>

\* lines 300-306: multiplier of every row and the clipped product
Overlay ==
    /\ pc = "overlay"
    /\ LET m == [r \in 1..Len(hr_probability) |-> overlay_multiplier(RowOf(today_df, r))]
       IN  /\ overlay_mult' = m
           /\ final_hr_probability' =
                [r \in 1..Len(hr_probability) |->
                    clip(Times(hr_probability[r], m[r]), 0, FScale)]
    /\ pc' = "rank"
    /\ UNCHANGED <<event_file, today_file, fit_throws, y_today_pred_cal, event_df,
                   today_df, errors, warnings, candidates, to_drop, feature_cols,
                   X, X_today, fit_idx, models_for_ensemble, model_status,
                   ensemble, hr_probability, lb_order, leaderboard, shown, gap,
                   exported>>

HasName == "player_name" \in Range(Columns(today_df))

\* one leaderboard row: the sorted row r with its display rounding
Entry(r) ==
    [player_name          |-> IF HasName THEN ColOf(today_df, "player_name").vals[r]
                              ELSE Str(<<>>),
     named                |-> HasName,
     hr_probability       |-> Round4(hr_probability[r]),
     overlay_multiplier   |-> Round3(overlay_mult[r]),
     final_hr_probability |-> Round4(final_hr_probability[r])]

\* lines 308-317: sort by the final probability, then round for display
Rank ==
    /\ pc = "rank"
    /\ \E order \in sort_values_descending(final_hr_probability) :
          /\ lb_order' = order
          /\ leaderboard' = [i \in 1..Len(order) |-> Entry(order[i])]
    /\ pc' = "debug"
    /\ UNCHANGED <<event_file, today_file, fit_throws, y_today_pred_cal, event_df,
                   today_df, errors, warnings, candidates, to_drop, feature_cols,
                   X, X_today, fit_idx, models_for_ensemble, model_status,
                   ensemble, hr_probability, overlay_mult, final_hr_probability,
                   shown, gap, exported>>

\* lines 319-334: today_df['player_name'] raises KeyError when the column is absent
Debug ==
    /\ pc = "debug"
    /\ IF HasName
       THEN /\ errors' = errors
            /\ pc' = "show"
       ELSE /\ errors' = Append(errors, Error("KeyError", {"player_name"}))
            /\ pc' = "crashed"
    /\ UNCHANGED <<event_file, today_file, fit_throws, y_today_pred_cal, event_df,
                   today_df, warnings, candidates, to_drop, feature_cols, X,
                   X_today, fit_idx, models_for_ensemble, model_status, ensemble,
                   hr_probability, overlay_mult, final_hr_probability, lb_order,
                   leaderboard, shown, gap, exported>>

\* lines 336-348: the top of the leaderboard and the confidence gap
Show ==
    /\ pc = "show"
    /\ shown' = SubSeq(leaderboard, 1, Min(top_n, Len(leaderboard)))
    /\ gap' = IF Len(leaderboard) > top_n
              THEN [state |-> "value",
                    value |-> leaderboard[top_n].final_hr_probability
                              - leaderboard[top_n + 1].final_hr_probability]
              ELSE [state |-> "not applicable", value |-> 0]
    /\ pc' = "export"
    /\ UNCHANGED <<event_file, today_file, fit_throws, y_today_pred_cal, event_df,
                   today_df, errors, warnings, candidates, to_drop, feature_cols,
                   X, X_today, fit_idx, models_for_ensemble, model_status,
                   ensemble, hr_probability, overlay_mult, final_hr_probability,
                   lb_order, leaderboard, exported>>

\* lines 350-360: the two downloads
Export ==
    /\ pc = "export"
    /\ exported' = TRUE
    /\ pc' = "done"
    /\ UNCHANGED <<event_file, today_file, fit_throws, y_today_pred_cal, event_df,
                   today_df, errors, warnings, candidates, to_drop, feature_cols,
                   X, X_today, fit_idx, models_for_ensemble, model_status,
                   ensemble, hr_probability, overlay_mult, final_hr_probability,
                   lb_order, leaderboard, shown, gap>>

-----------------------------------------------------------------------------
(* THE UPLOADS AND THE ENVIRONMENT *)

\* today-table sizes reach top_n + ExtraRows rows
ExtraRows == 2

Names3 == <<Str(<<"A", "l">>), Str(<<"B", "o">>), Str(<<"C", "y">>)>>
Names2 == <<Str(<<"D", "e">>), Str(<<"E", "d">>)>>

Label3 == Col("hr_outcome", "num", Nums(<<0, 1, 0>>))

\* event-table feature columns: three neighbours (the outer two correlate
\* less than each does with the middle one), a mirrored, a constant, an
\* unrelated and an incomplete column
VecPool ==
    { Nums(<<0, 4, 8>>), Nums(<<0, 5, 8>>), Nums(<<0, 6, 8>>), Nums(<<8, 4, 0>>),
      Nums(<<1, 1, 1>>), Nums(<<3, 0, 1>>), <<Num(0), NaN, Num(8)>> }

EventPlain ==
    << Col("player_name", "obj", Names3), Col("fa", "num", Nums(<<0, 4, 8>>)),
       Col("fb", "num", Nums(<<3, 0, 1>>)), Label3 >>

TodayPlain(named) ==
    (IF named THEN <<Col("player_name", "obj", Names2)>> ELSE <<>>)
    \o << Col("fa", "num", Nums(<<4, 6>>)), Col("fb", "num", Nums(<<2, 5>>)) >>

EventCorr(va, vb, vc) ==
    << Col("fa", "num", va), Col("fb", "num", vb), Col("fc", "num", vc), Label3 >>

TodayCorr(leak) ==
    << Col("player_name", "obj", Names2), Col("fa", "num", Nums(<<4, 6>>)),
       Col("fb", "num", Nums(<<2, 5>>)), Col("fc", "num", Nums(<<1, 3>>)) >>
    \o (IF leak THEN <<Col("hr_outcome", "num", Nums(<<0, 1>>))>> ELSE <<>>)

EventStruct(label, dup, va) ==
    (IF dup = "nullfirst" THEN <<Col("fb", "num", <<NaN, NaN, NaN>>)>> ELSE <<>>)
    \o << Col("batter_id", "num", Nums(<<11, 12, 13>>)),
          Col("player_name", "obj", Names3),
          Col("fa", "num", va),
          Col("fb", "obj", <<Str(<<"3">>), Str(<<"0">>), Str(<<"1">>)>>),
          Col("fc", "num", Nums(<<1, 0, 3>>)) >>
    \o (IF label = "present" THEN <<Label3>>
        ELSE IF label = "allnull" THEN <<Col("hr_outcome", "num", <<NaN, NaN, NaN>>)>>
        ELSE <<>>)
    \o (IF dup = "fa" THEN <<Col("fa", "num", Nums(<<0, 6, 8>>))>>
        ELSE IF dup = "label" THEN <<Col("hr_outcome", "num", Nums(<<1, 1, 0>>))>>
        ELSE <<>>)

Reverse(seq) == [i \in 1..Len(seq) |-> seq[Len(seq) + 1 - i]]

TodayStruct(leak, named, dup, rev, fc) ==
    LET cols ==
          << Col("batter_id", "num", Nums(<<21, 22>>)) >>
          \o (IF named THEN <<Col("player_name", "obj", Names2)>> ELSE <<>>)
          \o << Col("fa", "num", <<Num(4), NaN>>), Col("fb", "num", Nums(<<2, 5>>)) >>
          \o (IF fc = "num" THEN <<Col("fc", "num", Nums(<<1, 3>>))>>
              ELSE IF fc = "text" THEN <<Col("fc", "obj", <<Str(<<"h", "i">>), Str(<<"7">>)>>)>>
              ELSE IF fc = "digits" THEN <<Col("fc", "obj", <<Str(<<"1", "2">>), Str(<<"7">>)>>)>>
              ELSE IF fc = "inf" THEN <<Col("fc", "num", <<Num(1), Inf>>)>>
              ELSE <<>>)
          \o << Col("temp", "num", Nums(<<80, 70>>)),
                Col("note", "obj", <<Str(<<"x">>), NaN>>) >>
          \o (IF leak THEN <<Col("hr_outcome", "num", Nums(<<0, 1>>))>> ELSE <<>>)
          \o (IF dup THEN <<Col("fa", "num", Nums(<<7, 7>>))>> ELSE <<>>)
    IN  IF rev THEN Reverse(cols) ELSE cols

\* the second row carries wind 12 "out", 80 degrees, humidity 65, park 1.10
TodayOverlay(wind, dir, temp, hum, park) ==
    << Col("player_name", "obj", Names2),
       Col("fa", "num", Nums(<<4, 6>>)),
       Col("fb", "num", Nums(<<2, 5>>)),
       Col("wind_mph", "num", <<wind, Num(12)>>),
       Col("wind_dir_string", "obj", <<dir, Str(<<"o", "u", "t">>)>>),
       Col("temp", "num", <<temp, Num(80)>>),
       Col("humidity", "num", <<hum, Num(65)>>),
       Col("park_hr_rate", "num", <<park, Num(110)>>) >>

Winds == {NaN, Num(9), Num(10), Num(12)}
Dirs  == { NaN, Str(<<"O", "u", "t">>), Str(<<"I", "N">>), Str(<<"c", "a", "l", "m">>),
           Str(<<"o", "u", "t", " ", "i", "n">>) }
Temps == {NaN, Num(60), Num(70), Num(80)}
Hums  == {NaN, Num(39), Num(40), Num(60), Num(61)}
Parks == {NaN, Num(80), Num(85), Num(110), Num(120), Num(125)}

OverlayCols == {"wind_mph", "wind_dir_string", "temp", "humidity", "park_hr_rate"}

Probs == {0, 1, 50000, 83333, 83334, 99000, FScale}

RankProb(profile, i) ==
    IF profile = 1 THEN FScale - 2500 * i
    ELSE IF profile = 2 THEN 50004 + ((7 * i) % 32)
    ELSE 1000 * i + 5 * (i % 3)

RankPark(profile, i) ==
    IF profile = 1 THEN (IF i <= 2 THEN 120 ELSE 100)
    ELSE IF profile = 2 THEN 100
    ELSE (IF i % 2 = 0 THEN 85 ELSE 120)

TodayRank(n, profile) ==
    << Col("player_name", "obj", [i \in 1..n |-> Str(<<"p">> \o IntStr(i))]),
       Col("fa", "num", [i \in 1..n |-> Num(i)]),
       Col("fb", "num", [i \in 1..n |-> Num((i * i) % 7)]),
       Col("park_hr_rate", "num", [i \in 1..n |-> Num(RankPark(profile, i))]) >>

Scenario(e, t, f, y) ==
    /\ event_file = e
    /\ today_file = t
    /\ fit_throws = f
    /\ y_today_pred_cal = y

Init ==
    /\ pc = "ingest"
    /\ \/ \E label \in {"present", "absent", "allnull"},
             dup \in {"none", "fa", "label", "nullfirst"},
             va \in {Nums(<<0, 4, 8>>), <<Num(0), NaN, Num(8)>>, <<Num(0), Inf, Num(8)>>},
             leak \in BOOLEAN, named \in BOOLEAN, dupT \in BOOLEAN, rev \in BOOLEAN,
             fc \in {"num", "text", "digits", "inf", "absent"} :
               Scenario(EventStruct(label, dup, va),
                        TodayStruct(leak, named, dupT, rev, fc), {}, <<99000, 50000>>)
       \/ \E va \in VecPool, vb \in VecPool, vc \in VecPool, leak \in BOOLEAN :
               Scenario(EventCorr(va, vb, vc), TodayCorr(leak), {}, <<99000, 50000>>)
       \/ \E f \in SUBSET Range(Variants), named \in BOOLEAN :
               Scenario(EventPlain, TodayPlain(named), f, <<99000, 50000>>)
       \/ \E wind \in Winds, dir \in Dirs, temp \in Temps, hum \in Hums, park \in Parks :
               Scenario(EventPlain, TodayOverlay(wind, dir, temp, hum, park), {},
                        <<99000, 50000>>)
       \/ \E absent \in SUBSET OverlayCols :
               Scenario(EventPlain,
                        SelectSeq(TodayOverlay(Num(12), Str(<<"i", "n">>), Num(60), Num(30), Num(90)),
                                  LAMBDA c : c.name \notin absent),
                        {}, <<99000, 50000>>)
       \/ \E p \in Probs, park \in Parks, temp \in Temps :
               Scenario(EventPlain, TodayOverlay(NaN, NaN, temp, NaN, park), {},
                        <<p, 50000>>)
       \/ \E n \in (top_n - 1)..(top_n + ExtraRows), profile \in 1..3 :
               Scenario(EventPlain, TodayRank(n, profile), {},
                        [i \in 1..n |-> RankProb(profile, i)])
    /\ event_df = <<>>
    /\ today_df = <<>>
    /\ errors = <<>>
    /\ warnings = <<>>
    /\ candidates = <<>>
    /\ to_drop = <<>>
    /\ feature_cols = <<>>
    /\ X = <<>>
    /\ X_today = <<>>
    /\ fit_idx = 1
    /\ models_for_ensemble = <<>>
    /\ model_status = <<>>
    /\ ensemble = <<>>
    /\ hr_probability = <<>>
    /\ overlay_mult = <<>>
    /\ final_hr_probability = <<>>
    /\ lb_order = <<>>
    /\ leaderboard = <<>>
    /\ shown = <<>>
    /\ gap = [state |-> "none", value |-> 0]
    /\ exported = FALSE

Next ==
    \/ Ingest
    \/ LabelCheck
    \/ Cluster
    \/ BuildMatrices
    \/ FitModel
    \/ FitEnsemble
    \/ Predict
    \/ Overlay
    \/ Rank
    \/ Debug
    \/ Show
    \/ Export


Spec == Init /\ [][Next]_vars

-----------------------------------------------------------------------------
(* PROPERTIES *)

LastError == errors[Len(errors)].kind

DuplicateErrors == {"Duplicate columns in event file", "Duplicate columns in today file"}
MatrixErrors == {"NaNs or Infs in X features", "NaNs or Infs in X_today features"}

\* how many stages of the script have run (the six fits count as one stage)
Progress ==
    IF pc = "ingest" THEN 0
    ELSE IF pc = "label" THEN 1
    ELSE IF pc = "cluster" THEN 2
    ELSE IF pc = "matrix" THEN 3
    ELSE IF pc = "fit" THEN 4
    ELSE IF pc = "ensemble" THEN 5
    ELSE IF pc = "predict" THEN 6
    ELSE IF pc = "overlay" THEN 7
    ELSE IF pc = "rank" THEN 8
    ELSE IF pc = "debug" THEN 9
    ELSE IF pc = "show" THEN 10
    ELSE IF pc = "export" THEN 11
    ELSE IF pc = "done" THEN 12
    ELSE IF pc = "crashed" THEN 10
    ELSE IF LastError \in DuplicateErrors THEN 1
    ELSE IF LastError = "No valid hr_outcome column" THEN 2
    ELSE IF LastError \in MatrixErrors THEN 4
    ELSE 6

HasDuplicate(df) == \E i, j \in 1..Len(df) : i # j /\ df[i].name = df[j].name

\* nothing of the stages after the label check exists
NothingAfterLabel ==
    /\ candidates = <<>> /\ feature_cols = <<>> /\ X = <<>> /\ X_today = <<>>
    /\ models_for_ensemble = <<>> /\ ensemble = <<>> /\ hr_probability = <<>>
    /\ leaderboard = <<>> /\ shown = <<>> /\ ~exported

\* C1 (as stated): a table with two columns of the same name halts the run
\* with a fatal error naming the duplicated columns, and no later stage runs.
C1_DuplicatesHalt ==
    (pc # "ingest" /\ (HasDuplicate(event_file) \/ HasDuplicate(today_file)))
        => /\ pc = "halted"
           /\ LastError \in DuplicateErrors
           /\ errors[Len(errors)].cols # {}
           /\ NothingAfterLabel

\* the table the script works on: of the columns of the upload that are not
\* entirely null, the first of each name, type-fixed, in the upload's order
FirstOfEachName(file, df) ==
    LET live == dropna_all(file)
    IN  /\ ~HasDuplicate(df)
        /\ Range(Columns(df)) = Range(Columns(live))
        /\ \A i \in 1..Len(df) :
              LET first == CHOOSE k \in 1..Len(live) :
                              /\ live[k].name = df[i].name
                              /\ \A j \in 1..(k - 1) : live[j].name # df[i].name
              IN  df[i] = fix_types_col(live[first])
        /\ \A i, j \in 1..Len(df) :
              i < j => \E k, l \in 1..Len(live) :
                          k < l /\ live[k].name = df[i].name /\ live[l].name = df[j].name

\* C1 (amended): duplicate columns never halt the run: of the columns that are
\* not entirely null the first of each name is kept, the duplicate check that
\* follows finds nothing, no duplicate-column error is reported and the run
\* goes on to type fixing and the label check.
C1_DuplicatesDeduplicated ==
    pc # "ingest"
        => /\ \A i \in 1..Len(errors) : errors[i].kind \notin DuplicateErrors
           /\ Progress >= 2 \/ pc = "label"
           /\ FirstOfEachName(event_file, event_df)
           /\ FirstOfEachName(today_file, today_df)

C1_Witness ==
    /\ pc = "done"
    /\ HasDuplicate(dropna_all(event_file))
    /\ HasDuplicate(dropna_all(today_file))

AllFitsRan == Progress >= 5

Succeeded == SelectSeq(Variants, LAMBDA v : v \notin fit_throws)

\* C2 (as stated): whenever at least one of the six fits succeeds, every
\* failing variant is reported as a warning, the ensemble holds exactly the
\* variants that succeeded, and the run goes on to the leaderboard.
C2_FitFailuresIsolated ==
    (AllFitsRan /\ Succeeded # <<>>)
        => /\ warnings = KeepIdx(WarningOf, {k \in 1..Len(Variants) : Variants[k] \in fit_throws}, 1)
           /\ models_for_ensemble = Succeeded
           /\ Progress >= 6 => ensemble = Succeeded
           /\ pc \notin {"halted", "crashed"}

HasNaNInf(df) ==
    \E i \in 1..Len(df) : \E r \in 1..Len(df[i].vals) : df[i].vals[r].k \in {"nan", "inf"}

Produced == leaderboard # <<>> \/ shown # <<>> \/ exported

\* C3: a leaderboard or export exists only if the event table had the label
\* column, neither matrix held a NaN or an infinity, and a classifier was
\* fitted; when one of these fails the run halts there with a fatal error and
\* nothing of the later stages exists.
C3_OutputOnlyAfterValidation ==
    /\ Produced
          => /\ target_col \in Range(Columns(event_df))
             /\ ~HasNaNInf(X) /\ ~HasNaNInf(X_today)
             /\ models_for_ensemble # <<>>
    /\ (Progress >= 2 /\ target_col \notin Range(Columns(event_df)))
          => /\ pc = "halted" /\ LastError = "No valid hr_outcome column"
             /\ NothingAfterLabel
    /\ (Progress >= 4 /\ (HasNaNInf(X) \/ HasNaNInf(X_today)))
          => /\ pc = "halted" /\ LastError \in MatrixErrors
             /\ fit_idx = 1 /\ models_for_ensemble = <<>> /\ warnings = <<>>
             /\ hr_probability = <<>> /\ ~Produced
    /\ (Progress >= 6 /\ models_for_ensemble = <<>>)
          => /\ pc = "halted" /\ LastError = "All models failed to train"
             /\ ensemble = <<>> /\ hr_probability = <<>> /\ ~Produced

C3_Witness ==
    /\ pc = "halted"
    /\ fit_throws = Range(Variants)
    /\ Len(warnings) = Len(Variants)
    /\ LastError = "All models failed to train"

\* inputs of clean_X with a reference column list, some of whose columns the
\* input lacks or holds as text
CleanXCases ==
    { <<TodayPlain(TRUE), <<"fa", "fb", "fc">> >>,
      <<TodayPlain(FALSE), <<"fc", "fa">> >>,
      <<TodayCorr(TRUE), <<"hr_outcome", "humidity", "fb">> >>,
      <<TodayStruct(FALSE, TRUE, TRUE, TRUE, "text"), <<"fa", "fc", "note", "temp">> >>,
      <<TodayStruct(TRUE, FALSE, FALSE, FALSE, "absent"), <<"fc", "fb", "fa">> >> }

\* every cell of matrix is the cell of source, with -1 for a missing one
FilledFrom(matrix, source) ==
    /\ Len(matrix) = Len(source)
    /\ \A i \in 1..Len(matrix) :
          /\ Len(matrix[i].vals) = Len(source[i].vals)
          /\ \A r \in 1..Len(matrix[i].vals) :
                matrix[i].vals[r] = IF source[i].vals[r].k = "nan" THEN Num(0 - 1)
                                    ELSE source[i].vals[r]

\* C4: once the matrices are built X_today has the column names of X in the
\* same order, whatever columns the today table has; missing values of both
\* are -1; and a reference column the input of clean_X lacks is created and
\* filled with -1.
C4_SameColumnsSentinelFilled ==
    /\ Progress >= 4
          => /\ Columns(X_today) = Columns(X)
             /\ Columns(X) = feature_cols
             /\ FilledFrom(X, Select(event_df, feature_cols))
             /\ FilledFrom(X_today, Select(today_df, feature_cols))
    /\ \A case \in CleanXCases :
          LET made   == clean_X(case[1], SomeCols(case[2]))
              usable == {c.name : c \in {d \in Range(fix_types(dedup_columns(case[1]))) :
                                            d.dtype = "num" \/ d.name \in allowed_obj}}
          IN  /\ Columns(made) = case[2]
              /\ \A i \in 1..Len(made) :
                    made[i].name \notin usable
                        => \A r \in 1..NRows(case[1]) : made[i].vals[r] = Num(0 - 1)
              /\ \A i \in 1..Len(made) : \A r \in 1..Len(made[i].vals) :
                    made[i].vals[r].k # "nan"

C4_Witness ==
    /\ Progress >= 4
    /\ feature_cols # <<>>
    /\ Range(Columns(today_file)) \ Range(Columns(X)) # {}
    /\ \E i, j \in 1..Len(today_df) : \E k, l \in 1..Len(X_today) :
          i < j /\ k < l /\ today_df[i].name = X_today[l].name
                /\ today_df[j].name = X_today[k].name
    /\ \E i \in 1..Len(X_today) : \E r \in 1..Len(X_today[i].vals) :
          /\ ColOf(today_df, X_today[i].name).vals[r].k = "nan"
          /\ X_today[i].vals[r] = Num(0 - 1)

\* |correlation| > 0.97 of two candidate features in the event table
PairAbove(a, b) ==
    AbsCorrAbove(fillna(<<ColOf(event_df, a)>>, 0)[1].vals,
                 fillna(<<ColOf(event_df, b)>>, 0)[1].vals, 97)

Retained(c) == c \in Range(feature_cols)

\* C5: of two candidates with |correlation| > 0.97 at most one is retained,
\* and a candidate is dropped only if its |correlation| with some other
\* candidate is > 0.97.
C5_PruningSafety ==
    Progress >= 3
        => /\ \A a, b \in Range(candidates) :
                (a # b /\ PairAbove(a, b)) => ~(Retained(a) /\ Retained(b))
           /\ \A c \in Range(candidates) :
                ~Retained(c) => \E o \in Range(candidates) : o # c /\ PairAbove(o, c)
           /\ Range(feature_cols) \subseteq Range(candidates)

C5_Witness ==
    /\ Progress >= 3
    /\ \E a, b \in Range(candidates) : a # b /\ PairAbove(a, b) /\ Retained(a) /\ ~Retained(b)
    /\ \E a, b \in Range(candidates) : a # b /\ ~PairAbove(a, b) /\ Retained(a) /\ Retained(b)

\* C6 (as stated): of two candidates with |correlation| > 0.97 the one that
\* comes first in the sorted order is retained and the other is dropped; the
\* retained list keeps the sorted order.
C6_FirstRetained ==
    Progress >= 3
        => /\ \A i, j \in 1..Len(candidates) :
                (i < j /\ PairAbove(candidates[i], candidates[j]))
                    => Retained(candidates[i]) /\ ~Retained(candidates[j])
           /\ feature_cols = SelectSeq(candidates, Retained)

\* C6 (amended): of two candidates with |correlation| > 0.97 the later one in
\* the sorted order is dropped; a candidate is retained exactly when no
\* candidate before it has |correlation| > 0.97 with it (so the first of a
\* pair is itself dropped when an earlier candidate correlates with it); the
\* retained list keeps the sorted order.
C6_LaterDropped ==
    Progress >= 3
        => /\ candidates = sorted(Range(candidates))
           /\ \A j \in 1..Len(candidates) :
                Retained(candidates[j])
                    <=> ~\E i \in 1..(j - 1) : PairAbove(candidates[i], candidates[j])
           /\ to_drop = SelectSeq(candidates, LAMBDA c : ~Retained(c))
           /\ feature_cols = SelectSeq(candidates, Retained)

C6_Witness ==
    /\ Progress >= 3
    /\ \E i, j, k \in 1..Len(candidates) :
          /\ i < j /\ j < k
          /\ PairAbove(candidates[i], candidates[j])
          /\ PairAbove(candidates[j], candidates[k])
          /\ ~PairAbove(candidates[i], candidates[k])
          /\ Retained(candidates[i])
          /\ ~Retained(candidates[j])
          /\ ~Retained(candidates[k])

\* C7: every final probability is the product of the calibrated probability
\* and the multiplier, clamped to [0, 1].
C7_FinalIsClampedProduct ==
    Progress >= 8
        => /\ Len(final_hr_probability) = NRows(today_df)
           /\ \A r \in 1..Len(final_hr_probability) :
                LET product == Times(hr_probability[r], overlay_mult[r])
                IN  /\ 0 <= hr_probability[r] /\ hr_probability[r] <= FScale
                    /\ 0 <= final_hr_probability[r]
                    /\ final_hr_probability[r] <= FScale
                    /\ final_hr_probability[r] =
                          IF product > FScale THEN FScale
                          ELSE IF product < 0 THEN 0
                          ELSE product

\* probability 0.99 with multiplier 1.2 gives exactly 1.0
C7_Witness ==
    /\ Progress >= 8
    /\ \E r \in 1..Len(final_hr_probability) :
          /\ hr_probability[r] = 99000
          /\ overlay_mult[r] = <<6, 5>>
          /\ final_hr_probability[r] = FScale

Has(r, name) ==
    /\ name \in Range(Columns(today_df))
    /\ ColOf(today_df, name).vals[r].k # "nan"

Value(r, name) == ColOf(today_df, name).vals[r].v

Direction(r) ==
    LET c == ColOf(today_df, "wind_dir_string").vals[r]
    IN  IF c.k = "str" THEN lower(c.s) ELSE <<>>

\* the four factors, in hundredths over a common denominator
WindPart(r) ==
    IF Has(r, "wind_mph") /\ "wind_dir_string" \in Range(Columns(today_df))
          /\ Value(r, "wind_mph") >= 10
    THEN IF Contains(Direction(r), <<"o", "u", "t">>) THEN <<108, 100>>
         ELSE IF Contains(Direction(r), <<"i", "n">>) THEN <<93, 100>>
         ELSE <<100, 100>>
    ELSE <<100, 100>>

TempPart(r) ==
    IF ~Has(r, "temp") THEN <<1, 1>>
    ELSE LET e == (Value(r, "temp") - 70) \div 10
         IN  IF e >= 0 THEN <<IPow(103, e), IPow(100, e)>>
             ELSE <<IPow(100, 0 - e), IPow(103, 0 - e)>>

HumidityPart(r) ==
    IF ~Has(r, "humidity") THEN <<100, 100>>
    ELSE IF Value(r, "humidity") > 60 THEN <<102, 100>>
    ELSE IF Value(r, "humidity") < 40 THEN <<98, 100>>
    ELSE <<100, 100>>

ParkPart(r) ==
    IF ~Has(r, "park_hr_rate") THEN <<100, 100>>
    ELSE <<Min(120, Max(85, Value(r, "park_hr_rate"))), 100>>

\* C8: the multiplier of a row is the product of its wind, temperature,
\* humidity and park factors.
C8_MultiplierIsProduct ==
    Progress >= 8
        => \A r \in 1..Len(overlay_mult) :
              LET n == WindPart(r)[1] * TempPart(r)[1] * HumidityPart(r)[1] * ParkPart(r)[1]
                  d == WindPart(r)[2] * TempPart(r)[2] * HumidityPart(r)[2] * ParkPart(r)[2]
                  g == Gcd(n, d)
              IN  overlay_mult[r] = <<n \div g, d \div g>>

\* wind 12 "out", temp 80, humidity 65, park 1.10 yields 1.08 * 1.03 * 1.02 * 1.10
C8_Witness ==
    /\ Progress >= 8
    /\ \E r \in 1..Len(overlay_mult) :
          /\ Has(r, "wind_mph") /\ Value(r, "wind_mph") = 12
          /\ Direction(r) = <<"o", "u", "t">>
          /\ Has(r, "temp") /\ Value(r, "temp") = 80
          /\ Has(r, "humidity") /\ Value(r, "humidity") = 65
          /\ Has(r, "park_hr_rate") /\ Value(r, "park_hr_rate") = 110
          /\ overlay_mult[r] = <<(108 * 103 * 102 * 110) \div 80, (100 * 100 * 100 * 100) \div 80>>
    /\ \E r \in 1..Len(overlay_mult) :
          /\ Has(r, "wind_mph") /\ Value(r, "wind_mph") = 10
          /\ Contains(Direction(r), <<"i", "n">>)
          /\ ~Has(r, "temp") /\ ~Has(r, "humidity") /\ ~Has(r, "park_hr_rate")
          /\ overlay_mult[r] = <<93, 100>>

C10_LabelNeverFeature ==
    Progress >= 3
        => /\ Range(candidates) \cap ({target_col} \cup base_drop) = {}
           /\ Range(feature_cols) \cap ({target_col} \cup base_drop) = {}
           /\ target_col \notin Range(Columns(X)) \cup Range(Columns(X_today))

====
